---- MODULE Spec2Model ----
(***************************************************************************)
(* A model of release_fix_versioner.py: commits between two tags are       *)
(* grouped by issue key, every key is validated against the tracker, and   *)
(* the valid ones are to receive a newly created fix version.              *)
(*                                                                         *)
(* Text is a sequence of one-character strings, so that the regular        *)
(* expression search, strip() and upper() are computed character by        *)
(* character.  A dict is a sequence of [key, val] records in insertion     *)
(* order, which is the order Python iterates it in.                        *)
(***************************************************************************)
EXTENDS Integers, Sequences, FiniteSets, TLC

VARIABLES
    pc,               \* position of main()
    args,             \* the argparse Namespace, a record of its attributes
    commits,          \* subject lines returned by get_commits_for_tag
    ci,               \* number of commits the grouping loop has consumed
    grouped_commits,  \* commit_dict of group_commits_by_pattern
    unknown_commits,  \* unknown_commits of group_commits_by_pattern
    valid_tickets,    \* dict  key -> commit list
    invalid_tickets,  \* dict  key -> <<commit list, message>>
    trace,            \* prints, tracker and repository requests, typed answers, in order
    exit_status,      \* process exit status, or Running
    tracker,          \* how the tracker answers create and attach
    probe,            \* argument and result of a function applied on its own
    repo,             \* the tags of the repository at --repo-path, as repo.tags lists them
    pattern,          \* main's pattern: the compiled --commit-pattern
    release,          \* main's release: what --release-tag resolved to
    previous          \* main's previous: what --previous-tag resolved to

vars == <<pc, args, commits, ci, grouped_commits, unknown_commits, valid_tickets,
          invalid_tickets, trace, exit_status, tracker, probe,
          repo, pattern, release, previous>>

-----------------------------------------------------------------------------
(* Bounds of the model.                                                    *)

MaxCommits == 2        \* commits per list when the grouping is checked alone
MaxMainCommits == 3    \* commits per list in a run of main()
MaxPrompts == 2        \* unrecognised answers typed at the prompt
MaxLiveCommits == 2    \* commits per list when termination is checked
MaxOrder == 3          \* validations in a run when the order is varied
MaxDate == 2           \* committed_date of a tagged commit

-----------------------------------------------------------------------------
(* Characters and str methods.                                             *)

LowerSeq == <<"a","b","c","d","e","f","g","h","i","j","k","l","m",
              "n","o","p","q","r","s","t","u","v","w","x","y","z">>
UpperSeq == <<"A","B","C","D","E","F","G","H","I","J","K","L","M",
              "N","O","P","Q","R","S","T","U","V","W","X","Y","Z">>
LowerChars == {LowerSeq[i] : i \in 1..26}
UpperChars == {UpperSeq[i] : i \in 1..26}
DigitChars == {"0","1","2","3","4","5","6","7","8","9"}
WhitespaceChars == {" ", "\t"}
WordChars == LowerChars \cup UpperChars \cup DigitChars \cup {"_"}
AllChars == WordChars \cup WhitespaceChars \cup {"-", ":", "#", "."}

UpperCharNoop(c) == c

\* str.upper() on one character
UpperChar(c) ==
    IF c \in LowerChars
    THEN UpperSeq[CHOOSE i \in 1..26 : LowerSeq[i] = c]
    ELSE c

\* str.upper()
Upper(s) == [i \in 1..Len(s) |-> UpperChar(s[i])]

\* str.lower(), used by query_yes_no and by the statements about letter case
Lower(s) ==
    [i \in 1..Len(s) |->
        IF s[i] \in UpperChars
        THEN LowerSeq[CHOOSE j \in 1..26 : UpperSeq[j] = s[i]]
        ELSE s[i]]

StripNoop(s) == s

\* str.strip(): leading and trailing whitespace removed
Strip(s) ==
    LET keep == {i \in 1..Len(s) : s[i] \notin WhitespaceChars}
    IN  IF keep = {} THEN <<>>
        ELSE LET lo == CHOOSE i \in keep : \A j \in keep : i <= j
                 hi == CHOOSE i \in keep : \A j \in keep : j <= i
             IN  SubSeq(s, lo, hi)

-----------------------------------------------------------------------------
(* Compiled patterns.  A pattern is a sequence of items, each a character  *)
(* class with a quantifier ("1", "*" or "+"); a group is a range of items. *)
(* groupindex maps the names of the named groups to their numbers.         *)

Item(cls, q) == [cls |-> cls, q |-> q]
Lit(c) == Item({c}, "1")

\* --commit-pattern default:  ^(?P<key>[\w]*-[\d]*)[ :-](?P<value>.*)
DefaultPattern ==
    [anchored |-> TRUE,
     items |-> <<Item(WordChars, "*"), Lit("-"), Item(DigitChars, "*"),
                 Item({" ", ":", "-"}, "1"), Item(AllChars, "*")>>,
     groups |-> <<[from |-> 1, to |-> 3], [from |-> 5, to |-> 5]>>,
     groupindex |-> [key |-> 1, value |-> 2]]

\* the example of the --commit-pattern help:  (?P<key>CORE-[\d]*): (?P<value>.*)
HelpPattern ==
    [anchored |-> FALSE,
     items |-> <<Lit("C"), Lit("O"), Lit("R"), Lit("E"), Lit("-"),
                 Item(DigitChars, "*"), Lit(":"), Lit(" "), Item(AllChars, "*")>>,
     groups |-> <<[from |-> 1, to |-> 6], [from |-> 9, to |-> 9]>>,
     groupindex |-> [key |-> 1, value |-> 2]]

\* ^(?P<key>[A-Z]+-[0-9]+)[ :-](?P<value>.*)
ScenarioPattern ==
    [anchored |-> TRUE,
     items |-> <<Item(UpperChars, "+"), Lit("-"), Item(DigitChars, "+"),
                 Item({" ", ":", "-"}, "1"), Item(AllChars, "*")>>,
     groups |-> <<[from |-> 1, to |-> 3], [from |-> 5, to |-> 5]>>,
     groupindex |-> [key |-> 1, value |-> 2]]

\* a pattern without named groups:  ^([^:]*):(.*)
PositionalPattern ==
    [anchored |-> TRUE,
     items |-> <<Item(AllChars \ {":"}, "*"), Lit(":"), Item(AllChars, "*")>>,
     groups |-> <<[from |-> 1, to |-> 1], [from |-> 3, to |-> 3]>>,
     groupindex |-> [n \in {} |-> 0]]

\* named groups in the other order:  ^(?P<value>[^#]*)#(?P<key>.*)
SwappedPattern ==
    [anchored |-> TRUE,
     items |-> <<Item(AllChars \ {"#"}, "*"), Lit("#"), Item(AllChars, "*")>>,
     groups |-> <<[from |-> 1, to |-> 1], [from |-> 3, to |-> 3]>>,
     groupindex |-> [value |-> 1, key |-> 2]]

Patterns == {DefaultPattern, HelpPattern, ScenarioPattern, PositionalPattern,
             SwappedPattern}

NoMatch == [ok |-> FALSE]

\* how many characters of s from position pos on (1-based) are in cls
RECURSIVE RunLength(_, _, _)
RunLength(cls, s, pos) ==
    IF pos <= Len(s) /\ s[pos] \in cls THEN 1 + RunLength(cls, s, pos + 1) ELSE 0

MinCount(it) == IF it.q = "*" THEN 0 ELSE 1

\* Greedy matching with backtracking: item i takes as many characters as it
\* can, and gives them back one at a time while the rest does not match.
RECURSIVE MatchItems(_, _, _, _)
RECURSIVE TryCount(_, _, _, _, _)
MatchItems(items, s, i, pos) ==
    IF i > Len(items) THEN [ok |-> TRUE, lens |-> <<>>]
    ELSE LET run == RunLength(items[i].cls, s, pos)
             most == IF items[i].q = "1" /\ run > 1 THEN 1 ELSE run
         IN  TryCount(items, s, i, pos, most)
TryCount(items, s, i, pos, n) ==
    IF n < MinCount(items[i]) THEN NoMatch
    ELSE LET rest == MatchItems(items, s, i + 1, pos + n)
         IN  IF rest.ok THEN [ok |-> TRUE, lens |-> <<n>> \o rest.lens]
             ELSE TryCount(items, s, i, pos, n - 1)

RECURSIVE SumTo(_, _)
SumTo(lens, n) == IF n = 0 THEN 0 ELSE lens[n] + SumTo(lens, n - 1)

\* the match object: start of the match and the text of each group
MatchAt(p, s, start) ==
    LET r == MatchItems(p.items, s, 1, start)
    IN  IF ~r.ok THEN NoMatch
        ELSE [ok |-> TRUE,
              group |-> [g \in 1..Len(p.groups) |->
                  SubSeq(s, start + SumTo(r.lens, p.groups[g].from - 1),
                            start + SumTo(r.lens, p.groups[g].to) - 1)]]

\* re.search(regex_pattern, commit): the leftmost match
RECURSIVE SearchFrom(_, _, _)
SearchFrom(p, s, start) ==
    IF start > Len(s) + 1 THEN NoMatch
    ELSE LET m == MatchAt(p, s, start)
         IN  IF m.ok THEN m
             ELSE IF p.anchored THEN NoMatch
             ELSE SearchFrom(p, s, start + 1)

Search(p, s) == SearchFrom(p, s, 1)

\* key_id of group_commits_by_pattern
KeyId(p) == IF "key" \in DOMAIN p.groupindex THEN p.groupindex["key"] ELSE 1

\* value_id of group_commits_by_pattern
ValueId(p) == IF "value" \in DOMAIN p.groupindex THEN p.groupindex["value"] ELSE 2

-----------------------------------------------------------------------------
(* dict                                                                    *)

DictKeys(d) == {d[i].key : i \in 1..Len(d)}
DictHas(d, k) == k \in DictKeys(d)
DictGet(d, k) == d[CHOOSE i \in 1..Len(d) : d[i].key = k].val
\* d[k] = v : a new key goes last, an old key keeps its place
DictSet(d, k, v) ==
    IF DictHas(d, k)
    THEN [i \in 1..Len(d) |-> IF d[i].key = k THEN [key |-> k, val |-> v] ELSE d[i]]
    ELSE Append(d, [key |-> k, val |-> v])

-----------------------------------------------------------------------------
(* group_commits_by_pattern                                                *)

\* the key a match is filed under
MatchKey(p, m) == Upper(Strip(m.group[KeyId(p)]))

\* the fragment a match contributes
MatchValue(p, m) == Strip(m.group[ValueId(p)])

GroupedAfterOverwrite(p, d, commit) ==
    LET m == Search(p, commit)
    IN  IF m.ok THEN DictSet(d, MatchKey(p, m), <<MatchValue(p, m)>>) ELSE d

\* commit_dict after one turn of the loop
GroupedAfter(p, d, commit) ==
    LET m == Search(p, commit)
    IN  IF m.ok
        THEN LET key == MatchKey(p, m)
                 old == IF DictHas(d, key) THEN DictGet(d, key) ELSE <<>>
             IN  DictSet(d, key, Append(old, MatchValue(p, m)))
        ELSE d

\* unknown_commits after one turn of the loop
UnknownAfter(p, u, commit) ==
    IF Search(p, commit).ok THEN u ELSE Append(u, Strip(commit))

\* one turn of  for commit in commit_messages
GroupCommit ==
    /\ pc = "group"
    /\ ci < Len(commits)
    /\ grouped_commits' = GroupedAfter(args.commit_pattern, grouped_commits, commits[ci + 1])
    /\ unknown_commits' = UnknownAfter(args.commit_pattern, unknown_commits, commits[ci + 1])
    /\ ci' = ci + 1
    /\ UNCHANGED <<pc, args, commits, valid_tickets, invalid_tickets, trace,
                   exit_status, tracker, probe,
                   repo, pattern, release, previous>>

\* return commit_dict, unknown_commits
GroupReturn ==
    /\ pc = "group"
    /\ ci = Len(commits)
    /\ pc' = "report_unknown"
    /\ UNCHANGED <<args, commits, ci, grouped_commits, unknown_commits, valid_tickets,
                   invalid_tickets, trace, exit_status, tracker, probe,
                   repo, pattern, release, previous>>

-----------------------------------------------------------------------------
(* Inputs.                                                                 *)

Running == -1                      \* exit_status while the process runs
NoProbe == [fn |-> "none"]
NoTracker == [create_status |-> 0, version_id |-> "", attach_fail |-> {}]

\* sequences over S of length at most n
SeqsUpTo(S, n) == UNION {[1..k -> S] : k \in 0..n}

Heads == { <<"a","-","1">>, <<"A","-","1">>, <<" ","a","-","1"," ">>,
           <<"C","O","R","E","-","2">> }
Seps  == { <<":"," ">>, <<"#">> }
Tails == { <<"f">>, <<" ","g"," ">> }

ScenarioCommits ==
    << <<"C","O","R","E","-","1","2",":"," ","f","i","x"," ","b","u","g">>,
       <<"c","o","r","e","-","1","2"," ","-"," ","m","o","r","e"," ","f","i","x">>,
       <<"n","o"," ","t","i","c","k","e","t"," ","h","e","r","e">> >>

Messages == {h \o s \o t : h \in Heads, s \in Seps, t \in Tails}

\* The value of an option declared without action='store_true' is its
\* default, or the text typed after it; bool() of a text is "not empty".
Default(b) == [given |-> FALSE, default |-> b, text |-> ""]
Typed(t)   == [given |-> TRUE, default |-> FALSE, text |-> t]
Truthy(v)  == IF v.given THEN v.text # "" ELSE v.default

\* The Namespace parse_args returns: one attribute per add_argument, named
\* after the option.  (The options that only locate the repository and the
\* tracker are left out.)
Namespace(p, dry, yes, tag, allow) ==
    [commit_pattern |-> p, dry_run |-> dry, assume_yes |-> yes, create_tag |-> tag,
     allow_multiple_versions |-> allow, release_name |-> "app-1.0",
     release_description |-> "notes", jira_project |-> "CORE"]

ArgsFor(p) == Namespace(p, Default(TRUE), FALSE, FALSE, Default(FALSE))

\* a local of main that has no value yet
Unbound == [kind |-> "unbound"]

\* a tag of the repository: its name and the committed_date of its commit
Tag(name, date) == [kind |-> "tag", name |-> name, committed_date |-> date]

\* the "" resolve_tag returns for no expression: the range then ends at HEAD
EmptyRef == [kind |-> "empty", name |-> <<>>, committed_date |-> 0]

\* main is not running, or a function is applied on its own
NotStarted ==
    /\ repo = <<>>
    /\ release = Unbound
    /\ previous = Unbound

\* main past line 223, in a repository with the one tag v1, run with
\* --previous-tag v1 and no --release-tag
PastStartup ==
    /\ repo = <<Tag(<<"v","1">>, 1)>>
    /\ pattern = args.commit_pattern
    /\ release = EmptyRef
    /\ previous = Tag(<<"v","1">>, 1)

\* group_commits_by_pattern applied on its own, to any list and pattern
InitClassify ==
    /\ pc = "group"
    /\ \E p \in Patterns : args = ArgsFor(p)
    /\ commits \in SeqsUpTo(Messages, MaxCommits) \cup {ScenarioCommits}
    /\ ci = 0
    /\ grouped_commits = <<>>
    /\ unknown_commits = <<>>
    /\ valid_tickets = <<>>
    /\ invalid_tickets = <<>>
    /\ trace = <<>>
    /\ exit_status = Running
    /\ tracker = NoTracker
    /\ probe = NoProbe
    /\ pattern = args.commit_pattern
    /\ NotStarted

NextClassify == GroupCommit \/ GroupReturn

SpecClassify == InitClassify /\ [][NextClassify]_vars

-----------------------------------------------------------------------------
(* validate_jira_id                                                        *)

\* the ValueError messages, by what they report:
\*   NotFound              'Jira ticket not found.'
\*   UnexpectedStatus      'Unexpected status code during lookup: <code>'
\*   WrongStatus           "Invalid status, expected 'Done' found '<text>'"
\*   AlreadyHasFixVersion  'Already contains a fix version: <text>'
Message(tag, code, text) == [tag |-> tag, code |-> code, text |-> text]
Returned == [ok |-> TRUE, message |-> Message("", 0, "")]
Raised(m) == [ok |-> FALSE, message |-> m]

ValidateFixVersionFirst(response, allow_multiple_fix_versions) ==
    IF response.status_code = 404 THEN Raised(Message("NotFound", 0, ""))
    ELSE IF response.status_code # 200
    THEN Raised(Message("UnexpectedStatus", response.status_code, ""))
    ELSE IF /\ ~Truthy(allow_multiple_fix_versions)
            /\ response.has_fixVersions
            /\ Len(response.fixVersions) # 0
    THEN Raised(Message("AlreadyHasFixVersion", 0, response.fixVersions[1].name))
    ELSE IF response.status_name # "Done"
    THEN Raised(Message("WrongStatus", 0, response.status_name))
    ELSE Returned

\* response: the answer to GET /rest/api/2/issue/<jira_id>: its status code and,
\* of the body, fields.status.name and fields.fixVersions (which may be absent)
ValidateJiraId(response, allow_multiple_fix_versions) ==
    IF response.status_code = 404 THEN Raised(Message("NotFound", 0, ""))
    ELSE IF response.status_code # 200
    THEN Raised(Message("UnexpectedStatus", response.status_code, ""))
    ELSE IF response.status_name # "Done"
    THEN Raised(Message("WrongStatus", 0, response.status_name))
    ELSE IF /\ ~Truthy(allow_multiple_fix_versions)
            /\ response.has_fixVersions
            /\ Len(response.fixVersions) # 0
    THEN Raised(Message("AlreadyHasFixVersion", 0, response.fixVersions[1].name))
    ELSE Returned

Version(id, name) == [id |-> id, name |-> name]

IssueResponse(code, name, has, fvs) ==
    [status_code |-> code, status_name |-> name, has_fixVersions |-> has, fixVersions |-> fvs]

FixVersionLists ==
    { <<>>, <<Version("10", "1.0")>>, <<Version("11", "2.0"), Version("10", "1.0")>> }

\* answers of the tracker to a GET of an issue
IssueResponses ==
    {IssueResponse(c, n, TRUE, f) :
        c \in {200, 201, 404, 500}, n \in {"Done", "In Progress", "done"},
        f \in FixVersionLists}
    \cup {IssueResponse(c, n, FALSE, <<>>) :
        c \in {200, 201, 404, 500}, n \in {"Done", "In Progress", "done"}}

\* values of --allow-multiple-versions (default False) and --dry-run (default True)
AllowValues == {Default(FALSE), Typed(""), Typed("False"), Typed("yes")}
DryRunValues == {Default(TRUE), Typed(""), Typed("False")}

Idle ==
    /\ pc = "idle"
    /\ args = ArgsFor(DefaultPattern)
    /\ commits = <<>>
    /\ ci = 0
    /\ grouped_commits = <<>>
    /\ unknown_commits = <<>>
    /\ valid_tickets = <<>>
    /\ invalid_tickets = <<>>
    /\ trace = <<>>
    /\ exit_status = Running
    /\ tracker = NoTracker
    /\ pattern = Unbound
    /\ NotStarted

\* validate_jira_id applied on its own, to any answer and flag
InitValidate ==
    /\ Idle
    /\ \E r \in IssueResponses, a \in AllowValues :
          probe = [fn |-> "validate_jira_id", response |-> r, allow |-> a,
                   done |-> FALSE, result |-> Returned]

ApplyValidate ==
    /\ probe.fn = "validate_jira_id"
    /\ ~probe.done
    /\ probe' = [probe EXCEPT !.done = TRUE,
                              !.result = ValidateJiraId(probe.response, probe.allow)]
    /\ UNCHANGED <<pc, args, commits, ci, grouped_commits, unknown_commits, valid_tickets,
                   invalid_tickets, trace, exit_status, tracker,
                   repo, pattern, release, previous>>

SpecValidate == InitValidate /\ [][ApplyValidate]_vars

-----------------------------------------------------------------------------
(* main                                                                    *)

Printed(what, key) == [ev |-> "print", what |-> what, key |-> key, status |-> 0, info |-> <<>>]
Call(what, key, status, info) ==
    [ev |-> "call", what |-> what, key |-> key, status |-> status, info |-> info]
Typing(text) == [ev |-> "input", what |-> "answer", key |-> text, status |-> 0, info |-> <<>>]

\* sys.exit(n), as the status the parent process sees
ExitStatus(n) == n % 256

\* getattr on the Namespace: an attribute that was never set raises AttributeError
HasAttr(ns, name) == name \in DOMAIN ns

PrintedEachNothing(what, keys) == <<>>

RECURSIVE PrintedEach(_, _)
PrintedEach(what, keys) ==
    IF keys = <<>> THEN <<>> ELSE <<Printed(what, Head(keys))>> \o PrintedEach(what, Tail(keys))

KeySeq(d) == [i \in 1..Len(d) |-> d[i].key]

\* lines 234-245: the unparsed commits are printed, the two dicts are created
ReportUnknown ==
    /\ pc = "report_unknown"
    /\ trace' = trace \o <<Printed("unparsed_header", <<>>)>>
                      \o PrintedEach("unparsed", unknown_commits)
                      \o <<Printed("validating", <<>>)>>
    /\ valid_tickets' = <<>>
    /\ invalid_tickets' = <<>>
    /\ pc' = "validate"
    /\ UNCHANGED <<args, commits, ci, grouped_commits, unknown_commits, exit_status,
                   tracker, probe,
                   repo, pattern, release, previous>>

\* answers of the tracker to a GET of an issue, in a run of main
MainIssueResponses ==
    { IssueResponse(200, "Done", FALSE, <<>>),
      IssueResponse(200, "Done", TRUE, <<Version("10", "1.0")>>),
      IssueResponse(200, "In Progress", FALSE, <<>>),
      IssueResponse(404, "", FALSE, <<>>),
      IssueResponse(500, "", FALSE, <<>>) }

Validated == Len(valid_tickets) + Len(invalid_tickets)

InvalidEntryNoCommits(commit_list, message) == [commits |-> <<>>, message |-> message]

\* line 251: (commit_list, str(e))
InvalidEntry(commit_list, message) == [commits |-> commit_list, message |-> message]

\* lines 246-251: one turn of the validation loop
ValidateTicket ==
    /\ pc = "validate"
    /\ Validated < Len(grouped_commits)
    /\ LET jira_id == grouped_commits[Validated + 1].key
           commit_list == grouped_commits[Validated + 1].val
       IN  \E response \in MainIssueResponses :
             LET r == ValidateJiraId(response, args.allow_multiple_versions)
             IN  /\ trace' = Append(trace, Call("get_issue", jira_id, response.status_code, <<>>))
                 /\ IF r.ok
                    THEN /\ valid_tickets' = DictSet(valid_tickets, jira_id, commit_list)
                         /\ UNCHANGED invalid_tickets
                    ELSE /\ invalid_tickets' = DictSet(invalid_tickets, jira_id,
                                InvalidEntry(commit_list, r.message))
                         /\ UNCHANGED valid_tickets
    /\ UNCHANGED <<pc, args, commits, ci, grouped_commits, unknown_commits, exit_status,
                   tracker, probe,
                   repo, pattern, release, previous>>

\* The messages sort as text: 'Already ...' < 'Invalid status ...' <
\* 'Jira ticket ...' < 'Unexpected ...'.
MessageRank(m) ==
    CASE m.tag = "AlreadyHasFixVersion" -> 1
      [] m.tag = "WrongStatus" -> 2
      [] m.tag = "NotFound" -> 3
      [] OTHER -> 4

\* sorted(invalid_tickets.items(), key=message): a stable sort, as keys
SortedByMessage(d) ==
    LET before(i, j) ==
            \/ MessageRank(d[i].val.message) < MessageRank(d[j].val.message)
            \/ MessageRank(d[i].val.message) = MessageRank(d[j].val.message) /\ i < j
    IN  [n \in 1..Len(d) |->
            d[CHOOSE i \in 1..Len(d) :
                Cardinality({j \in 1..Len(d) : before(j, i)}) = n - 1].key]

\* line 264: '<ticket> is invalid: <message>', for each key in turn
RECURSIVE PrintedInvalid(_, _)
PrintedInvalid(d, keys) ==
    IF keys = <<>> THEN <<>>
    ELSE LET m == DictGet(d, Head(keys)).message
         IN  <<[ev |-> "print", what |-> "invalid_ticket", key |-> Head(keys),
                status |-> m.code, info |-> <<m.tag, m.text>>]>>
             \o PrintedInvalid(d, Tail(keys))

\* lines 253-266: the valid and the invalid tickets are printed
ReportTickets ==
    /\ pc = "validate"
    /\ Validated = Len(grouped_commits)
    /\ trace' = trace
          \o (IF Len(valid_tickets) # 0
              THEN <<Printed("valid_header", <<>>)>> \o PrintedEach("valid_ticket", KeySeq(valid_tickets))
              ELSE <<>>)
          \o (IF Len(invalid_tickets) # 0
              THEN <<Printed("invalid_header", <<>>)>>
                   \o PrintedInvalid(invalid_tickets, SortedByMessage(invalid_tickets))
              ELSE <<>>)
    /\ pc' = "decide"
    /\ UNCHANGED <<args, commits, ci, grouped_commits, unknown_commits, valid_tickets,
                   invalid_tickets, exit_status, tracker, probe,
                   repo, pattern, release, previous>>

NoValidNever(valid) == FALSE

\* len(valid_tickets) == 0
NoValid(valid) == Len(valid) = 0

IsDryRunNever(ns) == FALSE

\* if args.dry_run
IsDryRun(ns) == Truthy(ns.dry_run)

\* lines 269-271
NoValidExit ==
    /\ pc = "decide"
    /\ NoValid(valid_tickets)
    /\ trace' = Append(trace, Printed("no_valid", <<>>))
    /\ exit_status' = ExitStatus(-1)
    /\ pc' = "exit_no_valid"
    /\ UNCHANGED <<args, commits, ci, grouped_commits, unknown_commits, valid_tickets,
                   invalid_tickets, tracker, probe,
                   repo, pattern, release, previous>>

DryRunExitStatusZero == ExitStatus(0)

\* sys.exit(-1) of the dry run
DryRunExitStatus == ExitStatus(-1)

\* lines 273-275
DryRunExit ==
    /\ pc = "decide"
    /\ ~NoValid(valid_tickets)
    /\ IsDryRun(args)
    /\ trace' = Append(trace, Printed("dry_run_exit", <<>>))
    /\ exit_status' = DryRunExitStatus
    /\ pc' = "exit_dry_run"
    /\ UNCHANGED <<args, commits, ci, grouped_commits, unknown_commits, valid_tickets,
                   invalid_tickets, tracker, probe,
                   repo, pattern, release, previous>>

\* line 277, args.assume_yes is not False: query_yes_no is not called
AssumeYes ==
    /\ pc = "decide"
    /\ ~NoValid(valid_tickets)
    /\ ~IsDryRun(args)
    /\ args.assume_yes # FALSE
    /\ pc' = "create"
    /\ UNCHANGED <<args, commits, ci, grouped_commits, unknown_commits, valid_tickets,
                   invalid_tickets, trace, exit_status, tracker, probe,
                   repo, pattern, release, previous>>

Yes == <<"y","e","s">>
No == <<"n","o">>
\* the dict valid of query_yes_no
ValidAnswers == {Yes, <<"y">>, <<"y","e">>, No, <<"n">>}
ValidAnswerAlways(choice) == TRUE

\* valid[choice]
ValidAnswer(choice) == choice \in {Yes, <<"y">>, <<"y","e">>}

AnswersUnrecognised == { <<"m","a","y","b","e">> }

\* what the user may type
Answers == { <<"Y">>, <<"n">>, <<>>, <<"m","a","y","b","e">> }

Retries == Cardinality({i \in 1..Len(trace) : trace[i].what = "please_respond"})

\* line 277 with args.assume_yes False: one turn of the loop of query_yes_no
\* (default "yes"), and what main does with the answer
Ask ==
    /\ pc = "decide"
    /\ ~NoValid(valid_tickets)
    /\ ~IsDryRun(args)
    /\ args.assume_yes = FALSE
    /\ \E typed \in Answers :
          LET choice == Lower(typed)
              asked == trace \o <<Printed("question", <<>>), Typing(typed)>>
          IN  IF choice = <<>> \/ choice \in ValidAnswers
              THEN IF choice = <<>> \/ ValidAnswer(choice)
                   THEN /\ pc' = "create"
                        /\ trace' = asked
                        /\ UNCHANGED exit_status
                   ELSE /\ pc' = "exit_declined"
                        /\ trace' = asked
                        /\ exit_status' = ExitStatus(-1)
              ELSE /\ Retries < MaxPrompts
                   /\ trace' = Append(asked, Printed("please_respond", <<>>))
                   /\ UNCHANGED <<pc, exit_status>>
    /\ UNCHANGED <<args, commits, ci, grouped_commits, unknown_commits, valid_tickets,
                   invalid_tickets, tracker, probe,
                   repo, pattern, release, previous>>

MainMessages ==
    { <<"A","-","1",":","x">>, <<"b","-","2"," ","y">>, <<"C","-","3",":"," ","w">>, <<>> }
MainKeys == { <<"A","-","1">>, <<"B","-","2">>, <<"C","-","3">> }

\* git log prints at least one line (the split of an empty output is [''])
MainCommitLists == SeqsUpTo(MainMessages, MaxMainCommits) \ {<<>>}

\* the tracker: its answer to the POST of a version, the id it gives it, and
\* the issues whose PUT it refuses
Trackers ==
    {[create_status |-> 201, version_id |-> "10007", attach_fail |-> f] :
        f \in {{}, {<<"B","-","2">>}, MainKeys}}
    \cup {[create_status |-> 500, version_id |-> "", attach_fail |-> {}]}

\* create_fix_version: the POST, and its result
CreateFixVersionCall(fix_version_name, description, jira_project) ==
    Call("create_fix_version", <<>>, tracker'.create_status,
         IF description # "" THEN <<fix_version_name, jira_project, description>>
         ELSE <<fix_version_name, jira_project>>)
\* (status_code is not 201: the status is a small int, of which the interpreter
\* keeps one object each, so the identity test is the test for inequality)
CreateFixVersionOk == tracker'.create_status = 201

\* add_fix_version_to_ticket: the PUT, and whether it raises
AttachStatus(jira_id) == IF jira_id \in tracker'.attach_fail THEN 500 ELSE 204

\* lines 284-288: the attach loop, a failure printed and the loop continued
RECURSIVE AttachAll(_, _)
AttachAll(keys, fix_version_id) ==
    IF keys = <<>> THEN <<>>
    ELSE <<Call("add_fix_version", Head(keys), AttachStatus(Head(keys)), <<fix_version_id>>)>>
         \o (IF AttachStatus(Head(keys)) # 204
             THEN <<Printed("attach_failure", Head(keys))>> ELSE <<>>)
         \o AttachAll(Tail(keys), fix_version_id)

\* lines 291-293
TagAndPush ==
    IF args.create_tag /\ Len(valid_tickets) # 0
    THEN <<Call("create_tag", <<>>, 0, <<args.release_name>>), Call("push", <<>>, 0, <<>>)>>
    ELSE <<>>

\* Lines 280-296.  Line 281 reads args.description before create_fix_version
\* is entered; an AttributeError or the ValueError of create_fix_version is
\* caught by nobody, and the interpreter exits with status 1.  The tracker is
\* first looked at here: how it answers is any of Trackers, recorded in
\* tracker whether or not the run gets as far as asking.
Reconcile ==
    /\ pc = "create"
    /\ tracker' \in Trackers
    /\ IF ~HasAttr(args, "description")
       THEN /\ trace' = Append(trace, Printed("traceback_AttributeError", <<>>))
            /\ exit_status' = 1
            /\ pc' = "crashed"
       ELSE IF ~CreateFixVersionOk
       THEN /\ trace' = trace
                \o <<CreateFixVersionCall(args.release_name, args.description, args.jira_project),
                     Printed("traceback_ValueError", <<>>)>>
            /\ exit_status' = 1
            /\ pc' = "crashed"
       ELSE /\ trace' = trace
                \o <<CreateFixVersionCall(args.release_name, args.description, args.jira_project)>>
                \o AttachAll(KeySeq(valid_tickets), tracker'.version_id)
                \o TagAndPush
                \o <<Printed("done", <<>>)>>
            /\ exit_status' = 0
            /\ pc' = "done"
    /\ repo' = IF HasAttr(args, "description") /\ CreateFixVersionOk /\ TagAndPush # <<>>
               THEN Append(repo, Tag(args.release_name, 0))
               ELSE repo
    /\ UNCHANGED <<args, commits, ci, grouped_commits, unknown_commits, valid_tickets,
                   invalid_tickets, probe, pattern, release, previous>>

Init ==
    /\ pc = "group"
    /\ \E dry \in DryRunValues, yes \in BOOLEAN, tag \in BOOLEAN,
          allow \in {Default(FALSE), Typed("yes")} :
          args = Namespace(DefaultPattern, dry, yes, tag, allow)
    /\ commits \in MainCommitLists
    /\ ci = 0
    /\ grouped_commits = <<>>
    /\ unknown_commits = <<>>
    /\ valid_tickets = <<>>
    /\ invalid_tickets = <<>>
    /\ trace = <<>>
    /\ exit_status = Running
    /\ tracker = NoTracker
    /\ probe = NoProbe
    /\ PastStartup

Next ==
    \/ GroupCommit
    \/ GroupReturn
    \/ ReportUnknown
    \/ ValidateTicket
    \/ ReportTickets
    \/ NoValidExit
    \/ DryRunExit
    \/ AssumeYes
    \/ Ask
    \/ Reconcile

Spec == Init /\ [][Next]_vars

LiveInit == Init /\ Len(commits) <= MaxLiveCommits

\* A turn of the grouping loop, by what it does to pc and ci alone.  Under
\* Next the only step that increments ci is GroupCommit, and the two are
\* enabled in the same states, so fairness of LoopTurn is fairness of
\* GroupCommit, stated without the regular expression search.
LoopTurn ==
    /\ pc = "group"
    /\ ci < Len(commits)
    /\ ci' = ci + 1
    /\ pc' = pc

AfterGrouping ==
    \/ GroupReturn
    \/ ReportUnknown
    \/ ValidateTicket
    \/ ReportTickets
    \/ NoValidExit
    \/ DryRunExit
    \/ AssumeYes
    \/ Ask
    \/ Reconcile

\* The process runs on while it has a step to take: every request to the
\* tracker returns and every input() returns with a line typed, and after at
\* most MaxPrompts unrecognised answers the line typed is a recognised one.
LiveSpec ==
    LiveInit /\ [][Next]_vars /\ WF_<<pc, ci>>(LoopTurn) /\ WF_vars(AfterGrouping)

-----------------------------------------------------------------------------
(* parse_args and lines 211-223 of main: the options are checked, the      *)
(* repository is opened, the commit pattern compiled, the two tag          *)
(* expressions resolved and the commits listed.                            *)

\* the value of a text option: None when the option is not given
NoneValue == [given |-> FALSE, text |-> <<>>]
Text(t) == [given |-> TRUE, text |-> t]

\* not x, for None and for ''
Falsy(v) == ~v.given \/ v.text = <<>>

\* x or y
Or(x, y) == IF Falsy(x) THEN y ELSE x

\* the default of --commit-pattern, as typed
DefaultPatternText ==
    <<"^","(","?","P","<","k","e","y",">","[","\\","w","]","*","-","[","\\","d","]","*",")",
      "[", " ", ":", "-", "]", "(","?","P","<","v","a","l","u","e",">",".","*",")">>

CompileError == [ok |-> FALSE, pattern |-> Unbound]

\* re.compile of a text of literal characters, ".", "*" after a character and
\* parentheses: "*" with nothing before it or after another "*", and a
\* parenthesis without its partner, are errors.  (A "*" after ")" is taken
\* to repeat the one item before it; no text of the model has that.)
RECURSIVE CompileFrom(_, _, _, _)
CompileFrom(text, i, items, depth) ==
    IF i > Len(text)
    THEN IF depth > 0 THEN CompileError
         ELSE [ok |-> TRUE,
               pattern |-> [anchored |-> FALSE, items |-> items, groups |-> <<>>,
                            groupindex |-> [n \in {} |-> 0]]]
    ELSE CASE text[i] = "*" ->
                IF items = <<>> \/ items[Len(items)].q # "1" \/ text[i - 1] = "("
                THEN CompileError
                ELSE CompileFrom(text, i + 1,
                                 [items EXCEPT ![Len(items)].q = "*"], depth)
           [] text[i] = "(" -> CompileFrom(text, i + 1, items, depth + 1)
           [] text[i] = ")" ->
                IF depth = 0 THEN CompileError
                ELSE CompileFrom(text, i + 1, items, depth - 1)
           [] text[i] = "." ->
                CompileFrom(text, i + 1, Append(items, Item(AllChars, "1")), depth)
           [] OTHER -> CompileFrom(text, i + 1, Append(items, Lit(text[i])), depth)

\* re.compile(text)
Compile(text) ==
    IF text = DefaultPatternText THEN [ok |-> TRUE, pattern |-> DefaultPattern]
    ELSE CompileFrom(text, 1, <<>>, 0)

\* p.match(name): a match that starts at the first character
MatchesName(p, name) == MatchAt(p, name, 1).ok

SortedTagsAsListed(tags) == tags

\* sorted(tags, key=committed_date, reverse=True): the later commit first,
\* tags of one date in the order they had
SortedTags(tags) ==
    LET before(i, j) ==
            \/ tags[i].committed_date > tags[j].committed_date
            \/ tags[i].committed_date = tags[j].committed_date /\ i < j
    IN  [n \in 1..Len(tags) |->
            tags[CHOOSE i \in 1..Len(tags) :
                Cardinality({j \in 1..Len(tags) : before(j, i)}) = n - 1]]

\* resolve_tag(repo, tag): what it returns or raises, and whether repo.tags
\* was read
ResolveTag(tags, tag) ==
    IF Falsy(tag)
    THEN [outcome |-> "return", value |-> EmptyRef, inspected |-> FALSE]
    ELSE LET sorted_tags == SortedTags(tags)
             p == Compile(tag.text)
             hits == {i \in 1..Len(sorted_tags) :
                         MatchesName(p.pattern, sorted_tags[i].name)}
         IN  IF ~p.ok
             THEN [outcome |-> "re.error", value |-> Unbound, inspected |-> TRUE]
             ELSE IF hits = {}
             THEN [outcome |-> "could_not_find_tag", value |-> Unbound, inspected |-> TRUE]
             ELSE [outcome |-> "return",
                   value |-> sorted_tags[CHOOSE i \in hits : \A j \in hits : i <= j],
                   inspected |-> TRUE]

\* a function of the program is entered
Entered(what, key) ==
    [ev |-> "enter", what |-> what, key |-> key, status |-> 0, info |-> <<>>]

\* the Namespace of line 31, before the checks of parse_args
ParsedNamespace(app, release_name, release_tag, previous_tag, commit_pattern) ==
    [app |-> app, release_name |-> release_name, release_tag |-> release_tag,
     previous_tag |-> previous_tag, commit_pattern |-> commit_pattern,
     dry_run |-> Default(TRUE), assume_yes |-> FALSE, create_tag |-> FALSE,
     allow_multiple_versions |-> Default(FALSE),
     release_description |-> "notes", jira_project |-> "CORE"]

\* datetime.now().strftime(...)
Timestamps == { <<"2","0","2","6">>, <<"2","0","2","7">> }

\* lines 39-43
WithAppDefaults(ns, timestamp) ==
    IF ~Falsy(ns.app)
    THEN [ns EXCEPT
            !.release_name = Or(@, Text(ns.app.text \o <<"-">> \o timestamp)),
            !.previous_tag = Or(@, Text(ns.app.text \o <<"-","*">>))]
    ELSE ns

\* lines 33-46: which parser.error is called, if any
ParseArgsError(ns) ==
    IF ~Falsy(ns.app) /\ ~Falsy(ns.release_tag) THEN "ambiguous_release_tag"
    ELSE IF Falsy(ns.app) /\ Falsy(ns.previous_tag) THEN "previous_tag_or_app_required"
    ELSE IF Falsy(ns.app) /\ Falsy(ns.release_name) THEN "release_name_required"
    ELSE "none"

\* lines 211-213: parse_args; parser.error prints the usage and exits with status 2
ParseArgs ==
    /\ pc = "parse_args"
    /\ IF ParseArgsError(args) # "none"
       THEN /\ trace' = Append(trace, Printed(ParseArgsError(args), <<>>))
            /\ exit_status' = 2
            /\ pc' = "exit_usage"
            /\ UNCHANGED args
       ELSE /\ \E timestamp \in Timestamps : args' = WithAppDefaults(args, timestamp)
            /\ trace' = Append(trace, Printed("release_previous", <<>>))
            /\ pc' = "init_repo"
            /\ UNCHANGED exit_status
    /\ UNCHANGED <<commits, ci, grouped_commits, unknown_commits, valid_tickets,
                   invalid_tickets, tracker, probe, repo, pattern, release, previous>>

\* line 215
RepoInit ==
    /\ pc = "init_repo"
    /\ trace' = Append(trace, Call("Repo.init", <<>>, 0, <<>>))
    /\ pc' = "compile"
    /\ UNCHANGED <<args, commits, ci, grouped_commits, unknown_commits, valid_tickets,
                   invalid_tickets, exit_status, tracker, probe, repo, pattern,
                   release, previous>>

\* line 216: re.error is caught by nobody
CompilePattern ==
    /\ pc = "compile"
    /\ LET c == Compile(args.commit_pattern.text)
       IN  IF c.ok
           THEN /\ pattern' = c.pattern
                /\ pc' = "resolve_release"
                /\ UNCHANGED <<trace, exit_status>>
           ELSE /\ trace' = Append(trace, Printed("re.error", args.commit_pattern.text))
                /\ exit_status' = 1
                /\ pc' = "crashed"
                /\ UNCHANGED pattern
    /\ UNCHANGED <<args, commits, ci, grouped_commits, unknown_commits, valid_tickets,
                   invalid_tickets, tracker, probe, repo, release, previous>>

\* what a call of resolve_tag adds to the trace
ResolveTrace(tag, r) ==
    <<Entered("resolve_tag", tag.text)>>
    \o (IF r.inspected THEN <<Call("repo.tags", <<>>, 0, <<>>)>> ELSE <<>>)
    \o (IF r.outcome # "return"
        THEN <<Printed(r.outcome, tag.text)>> ELSE <<>>)

\* line 219
ResolveRelease ==
    /\ pc = "resolve_release"
    /\ LET r == ResolveTag(repo, args.release_tag)
       IN  /\ trace' = trace \o ResolveTrace(args.release_tag, r)
           /\ release' = r.value
           /\ IF r.outcome = "return"
              THEN pc' = "resolve_previous" /\ UNCHANGED exit_status
              ELSE pc' = "crashed" /\ exit_status' = 1
    /\ UNCHANGED <<args, commits, ci, grouped_commits, unknown_commits, valid_tickets,
                   invalid_tickets, tracker, probe, repo, pattern, previous>>

\* lines 220-222
ResolvePrevious ==
    /\ pc = "resolve_previous"
    /\ LET r == ResolveTag(repo, args.previous_tag)
       IN  /\ trace' = trace \o ResolveTrace(args.previous_tag, r)
                             \o (IF r.outcome = "return"
                                 THEN <<Printed("range", <<>>)>> ELSE <<>>)
           /\ previous' = r.value
           /\ IF r.outcome = "return"
              THEN pc' = "list_commits" /\ UNCHANGED exit_status
              ELSE pc' = "crashed" /\ exit_status' = 1
    /\ UNCHANGED <<args, commits, ci, grouped_commits, unknown_commits, valid_tickets,
                   invalid_tickets, tracker, probe, repo, pattern, release>>

\* what git log prints for the range
StartupCommitLists == { << <<>> >>, << <<"A","-","1",":","x">> >> }

\* line 223: git log --format=%s release...previous
GetCommitsForTag ==
    /\ pc = "list_commits"
    /\ commits' \in StartupCommitLists
    /\ trace' = Append(trace, Call("git_log", <<>>, 0, <<release.name, previous.name>>))
    /\ pc' = "group"
    /\ UNCHANGED <<args, ci, grouped_commits, unknown_commits, valid_tickets,
                   invalid_tickets, exit_status, tracker, probe, repo, pattern,
                   release, previous>>

TagNames == { <<"v","1">>, <<"v","2">>, <<"a","p","p","-","1">> }
\* repo.tags lists the tags by name
TagNameSeq == << <<"a","p","p","-","1">>, <<"v","1">>, <<"v","2">> >>

\* the repositories: any of the tags, each on a commit of any date
Repositories ==
    UNION { { [n \in 1..Len(names) |-> Tag(names[n], dates[n])] :
                dates \in [1..Len(names) -> 1..MaxDate] } :
            names \in { SelectSeq(TagNameSeq, LAMBDA t : t \in chosen) :
                        chosen \in SUBSET TagNames } }

\* what is typed after --release-tag and --previous-tag
TagExpressions ==
    { NoneValue, Text(<<>>), Text(<<"v","2">>), Text(<<"v",".","*">>),
      Text(<<"r","c">>), Text(<<"*","-","r","c">>) }

\* what is typed after --commit-pattern: nothing, or "("
CommitPatternTexts == { Text(DefaultPatternText), Text(<<"(">>) }

InitStartup ==
    /\ pc = "parse_args"
    /\ \E app \in {NoneValue, Text(<<"a","p","p">>)},
          release_name \in {NoneValue, Text(<<"r","1">>)},
          release_tag \in TagExpressions, previous_tag \in TagExpressions,
          commit_pattern \in CommitPatternTexts :
          args = ParsedNamespace(app, release_name, release_tag, previous_tag,
                                 commit_pattern)
    /\ repo \in Repositories
    /\ pattern = Unbound
    /\ release = Unbound
    /\ previous = Unbound
    /\ commits = <<>>
    /\ ci = 0
    /\ grouped_commits = <<>>
    /\ unknown_commits = <<>>
    /\ valid_tickets = <<>>
    /\ invalid_tickets = <<>>
    /\ trace = <<>>
    /\ exit_status = Running
    /\ tracker = NoTracker
    /\ probe = NoProbe

NextStartup ==
    \/ ParseArgs
    \/ RepoInit
    \/ CompilePattern
    \/ ResolveRelease
    \/ ResolvePrevious
    \/ GetCommitsForTag

SpecStartup == InitStartup /\ [][NextStartup]_vars

-----------------------------------------------------------------------------
(* The validation loop run twice over one state of the tracker.            *)

ValidationTurnAbortingBatch(maps, jira_id, commit_list, response, allow) ==
    IF maps.invalid # <<>> THEN maps
    ELSE IF ValidateJiraId(response, allow).ok
    THEN [maps EXCEPT !.valid = DictSet(@, jira_id, commit_list)]
    ELSE [maps EXCEPT !.invalid = DictSet(@, jira_id,
              InvalidEntry(commit_list, ValidateJiraId(response, allow).message))]

\* lines 247-251: the body of the validation loop, on the two dicts
ValidationTurn(maps, jira_id, commit_list, response, allow) ==
    LET r == ValidateJiraId(response, allow)
    IN  IF r.ok
        THEN [maps EXCEPT !.valid = DictSet(@, jira_id, commit_list)]
        ELSE [maps EXCEPT !.invalid = DictSet(@, jira_id,
                  InvalidEntry(commit_list, r.message))]

\* lines 241-242
NoMaps == [valid |-> <<>>, invalid |-> <<>>]

\* the commit list of each key
Fragments ==
    [k \in MainKeys |->
        CASE k = <<"A","-","1">> -> << <<"x">> >>
          [] k = <<"B","-","2">> -> << <<"y">>, <<"z">> >>
          [] OTHER -> << <<"w">> >>]

\* a state of the tracker: the answer to the GET of each issue
Snapshots ==
    [MainKeys -> { IssueResponse(200, "Done", FALSE, <<>>),
                   IssueResponse(200, "Done", TRUE, <<Version("10", "1.0")>>),
                   IssueResponse(404, "", FALSE, <<>>) }]

\* the keys in the order the loop takes them; a key may come again
Orders == SeqsUpTo(MainKeys, MaxOrder) \ {<<>>}

Range(order) == {order[i] : i \in 1..Len(order)}

\* the keys in the order a CommitGroup of commits A-1, B-2, C-3 holds them
MainKeySeq == << <<"A","-","1">>, <<"B","-","2">>, <<"C","-","3">> >>

\* Two runs of the loop against one snapshot and one flag: the first over
\* the distinct keys, the second over the same keys in any order, with
\* repetitions.
InitOrders ==
    /\ Idle
    /\ \E snapshot \in Snapshots, a \in {Default(FALSE), Typed("yes")},
          second \in Orders :
          probe = [fn |-> "validation_orders", snapshot |-> snapshot, allow |-> a,
                   order |-> <<SelectSeq(MainKeySeq, LAMBDA k : k \in Range(second)),
                               second>>,
                   at |-> <<0, 0>>,
                   maps |-> <<NoMaps, NoMaps>>]

\* one turn of the loop of lines 246-251, in the first run or, once that is
\* over, in the second
ValidateInOrder ==
    /\ probe.fn = "validation_orders"
    /\ \E run \in 1..2 :
          /\ run = (IF probe.at[1] < Len(probe.order[1]) THEN 1 ELSE 2)
          /\ probe.at[run] < Len(probe.order[run])
          /\ LET jira_id == probe.order[run][probe.at[run] + 1]
             IN  probe' = [probe EXCEPT
                    !.at[run] = @ + 1,
                    !.maps[run] = ValidationTurn(@, jira_id, Fragments[jira_id],
                                                 probe.snapshot[jira_id], probe.allow)]
    /\ UNCHANGED <<pc, args, commits, ci, grouped_commits, unknown_commits, valid_tickets,
                   invalid_tickets, trace, exit_status, tracker,
                   repo, pattern, release, previous>>

SpecOrders == InitOrders /\ [][ValidateInOrder]_vars

-----------------------------------------------------------------------------
(* Statements about group_commits_by_pattern, under SpecClassify.          *)

\* the elements of a set of numbers, ascending
Ascending(S) ==
    [j \in 1..Cardinality(S) |-> CHOOSE x \in S : Cardinality({y \in S : y < x}) = j - 1]

Consumed == 1..ci
Matched(i) == Search(args.commit_pattern, commits[i]).ok
KeyOfCommit(i) == MatchKey(args.commit_pattern, Search(args.commit_pattern, commits[i]))
ValueOfCommit(i) == MatchValue(args.commit_pattern, Search(args.commit_pattern, commits[i]))
RawKeyOfCommit(i) ==
    Search(args.commit_pattern, commits[i]).group[KeyId(args.commit_pattern)]

RECURSIVE FragmentCount(_, _)
FragmentCount(d, n) == IF n = 0 THEN 0 ELSE Len(d[n].val) + FragmentCount(d, n - 1)

\* C4: every consumed message is in exactly one of the two outputs: the
\* fragments of the group of key k are the values of the matched messages
\* filed under k, in input order; the unmatched sequence is the trimmed
\* unmatched messages, in input order; fragments plus unmatched entries
\* count the messages; this for every list, the empty one too.
C4_Partition ==
    pc \in {"group", "report_unknown"} =>
        /\ Len(grouped_commits) = Cardinality(DictKeys(grouped_commits))
        /\ \A i \in Consumed : Matched(i) => DictHas(grouped_commits, KeyOfCommit(i))
        /\ \A k \in DictKeys(grouped_commits) :
              LET idx == Ascending({i \in Consumed : Matched(i) /\ KeyOfCommit(i) = k})
              IN  /\ Len(idx) >= 1
                  /\ DictGet(grouped_commits, k) =
                        [j \in 1..Len(idx) |-> ValueOfCommit(idx[j])]
        /\ LET idx == Ascending({i \in Consumed : ~Matched(i)})
           IN  unknown_commits = [j \in 1..Len(idx) |-> Strip(commits[idx[j]])]
        /\ FragmentCount(grouped_commits, Len(grouped_commits)) + Len(unknown_commits) = ci
        /\ (commits = <<>> /\ pc = "report_unknown") =>
              (grouped_commits = <<>> /\ unknown_commits = <<>>)

\* a returned classification with a group of two fragments and an unmatched line
C4_Witness ==
    /\ pc = "report_unknown"
    /\ Len(unknown_commits) >= 1
    /\ \E k \in DictKeys(grouped_commits) : Len(DictGet(grouped_commits, k)) = 2

IsScenario == commits = ScenarioCommits /\ args.commit_pattern = ScenarioPattern

Core12 == <<"C","O","R","E","-","1","2">>
FixBug == <<"f","i","x"," ","b","u","g">>
MoreFix == <<"m","o","r","e"," ","f","i","x">>

\* C5 as stated: the scenario yields {"CORE-12": ["fix bug", "more fix"]}
\* and the unmatched sequence ["no ticket here"].
C5_AsStated ==
    (pc = "report_unknown" /\ IsScenario) =>
        /\ grouped_commits = <<[key |-> Core12, val |-> <<FixBug, MoreFix>>]>>
        /\ unknown_commits = <<ScenarioCommits[3]>>

\* C5 amended: the search is case-sensitive, so "core-12 - more fix" does
\* not match [A-Z]+ and is unmatched: the scenario yields
\* {"CORE-12": ["fix bug"]} and ["core-12 - more fix", "no ticket here"].
C5_Amended ==
    (pc = "report_unknown" /\ IsScenario) =>
        /\ grouped_commits = <<[key |-> Core12, val |-> <<FixBug>>]>>
        /\ unknown_commits = <<ScenarioCommits[2], ScenarioCommits[3]>>

C5_Witness == pc = "report_unknown" /\ IsScenario /\ Len(grouped_commits) = 1

\* C6: every key of the CommitGroup equals its own trimmed, uppercased form;
\* no two groups have keys equal ignoring case; two consumed commits whose
\* extracted keys differ only in letter case or surrounding whitespace have
\* their fragments in one and the same group.
C6_CanonicalKeys ==
    pc \in {"group", "report_unknown"} =>
        /\ \A k \in DictKeys(grouped_commits) : k = Upper(Strip(k))
        /\ \A i, j \in 1..Len(grouped_commits) :
              Lower(grouped_commits[i].key) = Lower(grouped_commits[j].key) => i = j
        /\ \A i, j \in Consumed :
              (/\ Matched(i) /\ Matched(j)
               /\ Lower(Strip(RawKeyOfCommit(i))) = Lower(Strip(RawKeyOfCommit(j))))
              => \E g \in 1..Len(grouped_commits) :
                    /\ grouped_commits[g].key = Upper(Strip(RawKeyOfCommit(i)))
                    /\ \E a, b \in 1..Len(grouped_commits[g].val) :
                          /\ grouped_commits[g].val[a] = ValueOfCommit(i)
                          /\ grouped_commits[g].val[b] = ValueOfCommit(j)
                          /\ (i < j => a < b)
                    /\ \A h \in 1..Len(grouped_commits) :
                          grouped_commits[h].key \in {KeyOfCommit(i), KeyOfCommit(j)} => h = g

\* two commits whose extracted keys differ (case or whitespace) share one group
C6_Witness ==
    /\ pc = "report_unknown"
    /\ Len(grouped_commits) = 1
    /\ \E i, j \in Consumed :
          /\ Matched(i) /\ Matched(j)
          /\ RawKeyOfCommit(i) # RawKeyOfCommit(j)
          /\ RawKeyOfCommit(i) # Upper(RawKeyOfCommit(i))
          /\ Strip(RawKeyOfCommit(j)) # RawKeyOfCommit(j)

-----------------------------------------------------------------------------
(* Statements about validate_jira_id, under SpecValidate.                  *)

Resp == probe.response
Outcome == probe.result
HasVersions == Resp.has_fixVersions /\ Len(Resp.fixVersions) >= 1

\* C7: the outcome is that of the first applicable rule: 404 -> NotFound;
\* any other status but 200 -> UnexpectedStatus(code); status name other
\* than Done -> WrongStatus(actual), also when a fix version is present;
\* flag false and one or more fix versions -> AlreadyHasFixVersion(name of
\* the first); otherwise Valid.  AlreadyHasFixVersion never comes from an
\* absent or empty list, nor with the flag true.
C7_RuleOrder ==
    (probe.fn = "validate_jira_id" /\ probe.done) =>
        /\ Resp.status_code = 404 => Outcome = Raised(Message("NotFound", 0, ""))
        /\ Resp.status_code \notin {404, 200} =>
              Outcome = Raised(Message("UnexpectedStatus", Resp.status_code, ""))
        /\ (Resp.status_code = 200 /\ Resp.status_name # "Done") =>
              Outcome = Raised(Message("WrongStatus", 0, Resp.status_name))
        /\ (Resp.status_code = 200 /\ Resp.status_name = "Done") =>
              IF ~Truthy(probe.allow) /\ HasVersions
              THEN Outcome = Raised(Message("AlreadyHasFixVersion", 0, Resp.fixVersions[1].name))
              ELSE Outcome.ok
        /\ Outcome.message.tag = "AlreadyHasFixVersion" =>
              ~Truthy(probe.allow) /\ HasVersions
        /\ (Resp = IssueResponse(200, "Done", TRUE, <<Version("10", "1.0")>>)
              /\ ~Truthy(probe.allow)) =>
              Outcome = Raised(Message("AlreadyHasFixVersion", 0, "1.0"))
        /\ (Resp.status_code = 200 /\ Resp.status_name = "In Progress") =>
              Outcome = Raised(Message("WrongStatus", 0, "In Progress"))

\* an issue that is not done and already has a fix version, reported as WrongStatus
C7_Witness ==
    /\ probe.fn = "validate_jira_id" /\ probe.done
    /\ Resp.status_code = 200 /\ Resp.status_name = "In Progress"
    /\ HasVersions /\ ~Truthy(probe.allow)
    /\ Outcome.message.tag = "WrongStatus"

-----------------------------------------------------------------------------
(* Statements about a run of main, under Spec.                             *)

Terminal == pc \in {"exit_no_valid", "exit_dry_run", "exit_declined", "crashed", "done"}
\* the run got past the confirmation of line 277
Confirmed == pc \in {"create", "crashed", "done"}
ValidationOver == pc \notin {"group", "report_unknown", "validate"}

Events(what) == {i \in 1..Len(trace) : trace[i].what = what}
CreateCalls == Events("create_fix_version")
AttachCalls == Events("add_fix_version")
TagCalls == Events("create_tag") \cup Events("push")
AttachCallsFor(k) == {i \in AttachCalls : trace[i].key = k}

\* C1: with the dry-run flag set no create-fix-version and no
\* attach-fix-version request is ever issued, the run never gets to the
\* confirmation or past it, and with one or more valid issues it ends in
\* the dry-run terminal state, after the valid tickets were reported;
\* whatever assume-yes and create-tag are.
C1_DryRunNeverMutates ==
    Truthy(args.dry_run) =>
        /\ CreateCalls = {} /\ AttachCalls = {}
        /\ Events("question") = {}
        /\ pc \notin {"create", "crashed", "done", "exit_declined"}
        /\ (Terminal /\ Len(valid_tickets) >= 1) =>
              /\ pc = "exit_dry_run"
              /\ trace[Len(trace)].what = "dry_run_exit"
              /\ \A k \in DictKeys(valid_tickets) :
                    \E i \in Events("valid_ticket") : trace[i].key = k

\* a dry run with two valid issues, assume-yes and create-tag, ended
C1_Witness ==
    /\ pc = "exit_dry_run"
    /\ Truthy(args.dry_run) /\ args.assume_yes /\ args.create_tag
    /\ Len(valid_tickets) >= 2

\* C3 as stated, for a tracker that accepts the creation: once the confirmed
\* run is over, every valid issue has had its one attach attempt, answered
\* 204 unless the tracker refuses that issue, whichever other attaches fail.
C3_AsStated ==
    (Terminal /\ Confirmed /\ tracker.create_status = 201) =>
        \A k \in DictKeys(valid_tickets) :
            /\ Cardinality(AttachCallsFor(k)) = 1
            /\ \A i \in AttachCallsFor(k) :
                  (trace[i].status = 204) <=> (k \notin tracker.attach_fail)

\* C8: once validation has left zero valid tickets the run can only take the
\* no-valid exit: no prompt, no create, attach or tag request is ever made,
\* whatever the flags, and the exit status is not zero.
C8_NoValidNoMutation ==
    (ValidationOver /\ Len(valid_tickets) = 0) =>
        /\ pc \in {"decide", "exit_no_valid"}
        /\ Events("question") = {}
        /\ CreateCalls = {} /\ AttachCalls = {} /\ TagCalls = {}
        /\ pc = "exit_no_valid" => exit_status \notin {0, Running}

\* zero valid tickets, not a dry run, assume-yes and create-tag set, ended
C8_Witness ==
    /\ pc = "exit_no_valid"
    /\ ~Truthy(args.dry_run) /\ args.assume_yes /\ args.create_tag
    /\ Len(invalid_tickets) >= 2

\* C9 as stated: a confirmed run that is over has issued exactly one
\* create-fix-version request, carrying the release name, the project and
\* the release description; no run issues more than one.
C9_AsStated ==
    /\ Cardinality(CreateCalls) <= 1
    /\ (Terminal /\ Confirmed) =>
          /\ Cardinality(CreateCalls) = 1
          /\ \A i \in CreateCalls :
                trace[i].info = <<args.release_name, args.jira_project,
                                  args.release_description>>

\* every valid issue has one attach request, all answered 204
AllAttached ==
    \A k \in DictKeys(valid_tickets) :
        /\ Cardinality(AttachCallsFor(k)) = 1
        /\ \A i \in AttachCallsFor(k) : trace[i].status = 204

FullSuccess ==
    /\ ~Truthy(args.dry_run)
    /\ Confirmed
    /\ \E i \in CreateCalls : trace[i].status = 201
    /\ Len(valid_tickets) >= 1
    /\ AllAttached

\* C10: an exit status of zero is given only by a run that was not a dry
\* run, was confirmed, created the fix version and attached it to every
\* valid issue; the exit with zero valid tickets, the dry-run exit, the
\* declined run and the run stopped by an error all give a status other
\* than zero.
C10_ExitStatus ==
    /\ Terminal <=> exit_status # Running
    /\ exit_status \in {Running} \cup 0..255
    /\ exit_status = 0 => FullSuccess
    /\ (Terminal /\ ~FullSuccess) => exit_status # 0
    /\ pc \in {"exit_no_valid", "exit_dry_run", "exit_declined", "crashed"} =>
          exit_status # 0

\* a dry run with a valid issue has exited, with a status other than zero
C10_Witness ==
    /\ pc = "exit_dry_run"
    /\ Len(valid_tickets) >= 1
    /\ exit_status = 255

Mutations == CreateCalls \cup AttachCalls \cup TagCalls
\* the prompt and the requests that change the tracker or the repository
Decisions == Events("question") \cup Mutations

\* the reports of lines 234-266 stand in the trace before position q
ReportsBefore(q) ==
    LET before == SubSeq(trace, 1, q - 1)
        u == SelectSeq(before, LAMBDA e : e.what = "unparsed")
        inv == SelectSeq(before, LAMBDA e : e.what = "invalid_ticket")
    IN  /\ \E h \in 1..Len(before) : before[h].what = "unparsed_header"
        /\ [j \in 1..Len(u) |-> u[j].key] = unknown_commits
        /\ \A n \in 1..Len(invalid_tickets) :
              \E i \in 1..Len(inv) :
                  /\ inv[i].key = invalid_tickets[n].key
                  /\ inv[i].info = <<invalid_tickets[n].val.message.tag,
                                     invalid_tickets[n].val.message.text>>
                  /\ inv[i].status = invalid_tickets[n].val.message.code
        /\ Len(SelectSeq(before, LAMBDA e : e.what = "get_issue")) = Len(grouped_commits)

\* nothing of the reports or of the validation stands at position q or after it
NothingAfter(q) ==
    \A i \in q..Len(trace) :
        trace[i].what \notin {"unparsed_header", "unparsed", "invalid_ticket", "get_issue"}

\* C11: in a run that has finished validating, every unmatched commit and
\* every invalid ticket with its reason has been printed, and every
\* get_issue request made, before the prompt is asked and before any
\* create, attach or tag request; nothing of the reports or of the
\* validation comes after the first of those.
C11_ReportsBeforeDecision ==
    LET decisions == Decisions
    IN  IF decisions = {}
        THEN ValidationOver => ReportsBefore(Len(trace) + 1)
        ELSE LET first == CHOOSE q \in decisions : \A r \in decisions : q <= r
             IN  ReportsBefore(first) /\ NothingAfter(first)

\* the prompt was asked in a run with an unmatched commit, an invalid and a
\* valid ticket
C11_Witness ==
    /\ Events("question") # {}
    /\ Len(unknown_commits) >= 1
    /\ Len(invalid_tickets) >= 1
    /\ Len(valid_tickets) >= 1

Affirmative == {<<"y","e","s">>, <<"y","e">>, <<"y">>, <<>>}
Negative == {<<"n","o">>, <<"n">>}
TypedAnswers == Events("answer")

\* C12: when the answer typed at the prompt is no, the run is over at once,
\* with a status other than zero and without a create, attach or tag
\* request; the declined exit is only taken by a run that is not a dry run,
\* has no assume-yes, and was answered no; a run gets past the confirmation
\* (and issues a create request) only with assume-yes set, in which case
\* nothing is asked, or after an answer of yes or an empty answer.
C12_ConfirmationGate ==
    /\ \A i \in TypedAnswers :
          Lower(trace[i].key) \in Negative =>
              /\ pc = "exit_declined"
              /\ exit_status \notin {0, Running}
              /\ i = Len(trace)
              /\ Mutations = {}
    /\ pc = "exit_declined" =>
          /\ ~Truthy(args.dry_run) /\ args.assume_yes = FALSE
          /\ trace[Len(trace)].what = "answer"
          /\ Lower(trace[Len(trace)].key) \in Negative
    /\ Confirmed =>
          /\ ~Truthy(args.dry_run)
          /\ IF args.assume_yes # FALSE THEN Events("question") = {}
             ELSE \E i \in TypedAnswers : Lower(trace[i].key) \in Affirmative
    /\ \A c \in CreateCalls :
          \/ args.assume_yes # FALSE
          \/ \E i \in TypedAnswers : i < c /\ Lower(trace[i].key) \in Affirmative

\* a run with valid tickets and create-tag, declined after one unrecognised answer
C12_Witness ==
    /\ pc = "exit_declined"
    /\ args.create_tag
    /\ Len(valid_tickets) >= 1
    /\ Retries >= 1

\* C13 as stated: a confirmed run that is over, the tracker having accepted
\* the creation, has created and pushed the tag once if create-tag is set
\* and there are valid tickets (whatever the attaches answered) and not at
\* all otherwise, after an attach request for every valid ticket; no tag
\* is created in a dry run, a declined run, a run without valid tickets or
\* a run whose creation failed.
C13_AsStated ==
    /\ Cardinality(Events("create_tag")) <= 1 /\ Cardinality(Events("push")) <= 1
    /\ (Terminal /\ Confirmed /\ tracker.create_status = 201) =>
          LET due == IF args.create_tag /\ Len(valid_tickets) # 0 THEN 1 ELSE 0
          IN  /\ Cardinality(Events("create_tag")) = due
              /\ Cardinality(Events("push")) = due
    /\ \A t \in TagCalls :
          \A k \in DictKeys(valid_tickets) : \E i \in AttachCallsFor(k) : i < t
    /\ (\/ Truthy(args.dry_run)
        \/ pc \in {"exit_declined", "exit_no_valid"}
        \/ Len(valid_tickets) = 0
        \/ (Terminal /\ tracker.create_status # 201)) => TagCalls = {}

\* C16: once the validation loop is over, no key is both valid and invalid,
\* the valid and the invalid keys together are the keys of the CommitGroup,
\* get_issue was requested once for each of them, in the order of the
\* group, every key has kept its list of fragments, and a key is invalid
\* exactly when its own validation failed, whatever happened to the keys
\* before it; while the loop runs, the requests made are those of the first
\* keys of the group.
C16_ValidationPartition ==
    /\ pc = "validate" =>
          /\ Validated <= Len(grouped_commits)
          /\ LET requested == SelectSeq(trace, LAMBDA e : e.what = "get_issue")
             IN  /\ Len(requested) = Validated
                 /\ \A n \in 1..Validated : requested[n].key = grouped_commits[n].key
    /\ ValidationOver =>
          /\ DictKeys(valid_tickets) \cap DictKeys(invalid_tickets) = {}
          /\ DictKeys(valid_tickets) \cup DictKeys(invalid_tickets) =
                DictKeys(grouped_commits)
          /\ Len(valid_tickets) + Len(invalid_tickets) = Len(grouped_commits)
          /\ LET requested == SelectSeq(trace, LAMBDA e : e.what = "get_issue")
             IN  /\ Len(requested) = Len(grouped_commits)
                 /\ \A n \in 1..Len(grouped_commits) :
                       /\ requested[n].key = grouped_commits[n].key
                       /\ requested[n].status # 200 =>
                             DictHas(invalid_tickets, grouped_commits[n].key)
          /\ \A k \in DictKeys(valid_tickets) :
                DictGet(valid_tickets, k) = DictGet(grouped_commits, k)
          /\ \A k \in DictKeys(invalid_tickets) :
                DictGet(invalid_tickets, k).commits = DictGet(grouped_commits, k)

\* three keys: the first is not found, the second is valid, the third has
\* the wrong status
C16_Witness ==
    /\ pc = "decide"
    /\ Len(grouped_commits) = 3
    /\ DictHas(invalid_tickets, grouped_commits[1].key)
    /\ DictGet(invalid_tickets, grouped_commits[1].key).message.tag = "NotFound"
    /\ DictHas(valid_tickets, grouped_commits[2].key)
    /\ DictHas(invalid_tickets, grouped_commits[3].key)
    /\ DictGet(invalid_tickets, grouped_commits[3].key).message.tag = "WrongStatus"

\* C18 as stated: every attach request comes after a create request that
\* was answered 201, carries the id of the created version, and is for a
\* valid key, never for an invalid one; a confirmed run that is over, the
\* tracker having accepted the creation, has made exactly one attach
\* request for each valid key.
C18_AsStated ==
    /\ \A a \in AttachCalls :
          /\ \E c \in CreateCalls : c < a /\ trace[c].status = 201
          /\ trace[a].info = <<tracker.version_id>>
          /\ DictHas(valid_tickets, trace[a].key)
          /\ ~DictHas(invalid_tickets, trace[a].key)
    /\ (Terminal /\ Confirmed /\ tracker.create_status = 201) =>
          \A k \in DictKeys(valid_tickets) : Cardinality(AttachCallsFor(k)) = 1

-----------------------------------------------------------------------------
(* Statements about the termination of main, under LiveSpec.               *)

\* a step that leaves main at the prompt: an unrecognised answer was typed
Reprompted ==
    /\ \E typed \in Answers :
          /\ Lower(typed) # <<>> /\ Lower(typed) \notin ValidAnswers
          /\ trace' = trace \o <<Printed("question", <<>>), Typing(typed),
                                 Printed("please_respond", <<>>)>>
    /\ UNCHANGED <<pc, args, commits, ci, grouped_commits, unknown_commits,
                   valid_tickets, invalid_tickets, exit_status, tracker, probe,
                   repo, pattern, release, previous>>

\* C19: every run comes to an end: without valid tickets, after the dry
\* run, declined, stopped by an error, or done; and as long as the run
\* stays at the prompt each step is an unrecognised answer followed by the
\* request to respond with yes or no, with no request to the tracker or the
\* repository and nothing changed but what is on the terminal.
C19_Terminates ==
    /\ <>Terminal
    /\ [][(pc = "decide" /\ pc' = "decide") => Reprompted]_vars

\* MaxPrompts unrecognised answers, then a yes, and the run has ended
C19_Witness ==
    /\ Terminal
    /\ pc = "crashed"
    /\ Retries = MaxPrompts
    /\ Cardinality(Events("question")) = MaxPrompts + 1

-----------------------------------------------------------------------------
(* Statements about the order of validation, under SpecOrders.             *)

\* a dict as the set of its items, which is how two dicts compare
Items(d) == {<<d[i].key, d[i].val>> : i \in 1..Len(d)}

OrdersDone ==
    /\ probe.fn = "validation_orders"
    /\ probe.at[1] = Len(probe.order[1])
    /\ probe.at[2] = Len(probe.order[2])

\* C17: against one state of the tracker and one value of the flag, a key
\* validated again is filed where it was filed before, never under both
\* dicts, and once the same keys have been validated in two different
\* orders the two valid dicts hold the same items and the two invalid
\* dicts hold the same items, with the same messages.
C17_OrderInsensitive ==
    probe.fn = "validation_orders" =>
        /\ \A run \in 1..2 :
              /\ DictKeys(probe.maps[run].valid) \cap DictKeys(probe.maps[run].invalid) = {}
              /\ \A n \in 1..probe.at[run] :
                    LET k == probe.order[run][n]
                    IN  IF ValidateJiraId(probe.snapshot[k], probe.allow).ok
                        THEN DictHas(probe.maps[run].valid, k)
                        ELSE DictHas(probe.maps[run].invalid, k)
        /\ OrdersDone =>
              /\ Items(probe.maps[1].valid) = Items(probe.maps[2].valid)
              /\ Items(probe.maps[1].invalid) = Items(probe.maps[2].invalid)

\* the keys C-3, A-1, C-3 validated after A-1, C-3, both invalid for
\* different reasons: the two invalid dicts hold the keys in different order
C17_Witness ==
    /\ OrdersDone
    /\ probe.order[2] = << <<"C","-","3">>, <<"A","-","1">>, <<"C","-","3">> >>
    /\ Len(probe.maps[2].invalid) = 2
    /\ probe.maps[2].invalid[1].val.message.tag # probe.maps[2].invalid[2].val.message.tag
    /\ KeySeq(probe.maps[1].invalid) # KeySeq(probe.maps[2].invalid)

-----------------------------------------------------------------------------
(* Statements about the start of main, under SpecStartup.                  *)

\* requests to the repository or to the tracker
ExternalCalls == {i \in 1..Len(trace) : trace[i].ev = "call"}

ConfigurationError(ns) ==
    \/ ParseArgsError(ns) # "none"
    \/ ~Compile(ns.commit_pattern.text).ok

\* C14 as stated: when the commit pattern does not compile, or --app comes
\* with --release-tag, or neither --app nor --previous-tag is given, or
\* there is no release name, the run makes no request to the repository
\* (Repo.init, repo.tags, git log) or to the tracker, gets no further than
\* the compilation of the pattern, and ends with a status other than zero.
C14_AsStated ==
    ConfigurationError(args) =>
        /\ ExternalCalls = {}
        /\ pc \in {"parse_args", "exit_usage", "init_repo", "compile", "crashed"}
        /\ pc \in {"exit_usage", "crashed"} => exit_status \notin {0, Running}

ReleaseAttempted == Cardinality(Events("resolve_tag")) >= 1
PreviousAttempted == Cardinality(Events("resolve_tag")) >= 2

\* the tags of the repository whose name the expression matches
Matching(tag) ==
    {i \in 1..Len(repo) : MatchesName(Compile(tag.text).pattern, repo[i].name)}

TagNotFound(tag) ==
    /\ pc = "crashed"
    /\ exit_status = 1
    /\ trace[Len(trace)] = Printed("could_not_find_tag", tag.text)

\* what resolve_tag is to give for an expression that is a valid pattern
ResolvedAsStated(tag, ref) ==
    IF Falsy(tag) THEN ref = EmptyRef
    ELSE IF Matching(tag) = {} THEN ref = Unbound /\ TagNotFound(tag)
    ELSE \E i \in Matching(tag) :
            /\ ref = repo[i]
            /\ \A j \in Matching(tag) :
                  /\ repo[j].committed_date <= repo[i].committed_date
                  /\ repo[j].committed_date = repo[i].committed_date => i <= j

====
